---- MODULE Spec2Model ----
(***************************************************************************)
(* A model of web_scraper/tos_data_scraper.py: one run of main(), which    *)
(* opens an HTTP session, logs in (fetch_csrf_token + login), scrapes the  *)
(* listing pages 1..TOTAL_PAGES with scrape_page and writes the collected  *)
(* links to tos_links.csv.                                                 *)
(*                                                                         *)
(* The remote site is the environment: every response (status and parsed   *)
(* body) is chosen nondeterministically when the request is issued.        *)
(***************************************************************************)
EXTENDS Integers, Sequences, FiniteSets, TLC

(***************************************************************************)
(* Module-level constants of the script.                                   *)
(***************************************************************************)
BASE_URL == "https://edit.tosdr.org"

LOGIN_URL == BASE_URL \o "/users/sign_in"

SERVICES_URL == BASE_URL \o "/services"

DELAY == 5

\* The script sets TOTAL_PAGES = 328; the model runs the same loop over a
\* smaller page count.
TOTAL_PAGES == 2

\* Largest number of <tr> elements in a modelled listing page.
MaxRows == 2

\* Largest number of <input> elements in a modelled login page.
MaxInputs == 2

(***************************************************************************)
(* Python values.                                                          *)
(***************************************************************************)
\* Python's None (never a member of an input domain).
None == "None"

\* A tag attribute that is not there: tag['x'] raises KeyError.
NoAttr == "NoAttr"

\* `not x` for x a str or None.
Falsy(x) == x = None \/ x = ""

\* Sequences over S of length 0..n.
SeqUpTo(S, n) == UNION {[1..k -> S] : k \in 0..n}

(***************************************************************************)
(* The environment's responses.                                            *)
(***************************************************************************)
\* Final status codes a GET can come back with (the session follows
\* redirects).
Statuses == {200, 404, 500}

\* Final status codes the login POST can come back with.
PostStatuses == {200, 204, 401, 500}

\* raise_for_status as it would be if it raised for 5xx only.
RaisesForStatus_ServerOnly(status) == 500 <= status /\ status < 600

\* Response.raise_for_status(): raises HTTPError for 4xx and 5xx.
RaisesForStatus(status) == 400 <= status /\ status < 600

\* <input> elements of a login page.
InputElems ==
  { [name |-> "utf8", value |-> "x"],
    [name |-> "authenticity_token", value |-> "tokA"],
    [name |-> "authenticity_token", value |-> "tokB"],
    [name |-> "authenticity_token", value |-> ""],
    [name |-> "authenticity_token", value |-> NoAttr] }

\* A login page, as the sequence of its <input> elements in document order.
LoginBodies == SeqUpTo(InputElems, MaxInputs)

\* Bodies of the login POST's response.
PostBodies == {"Signed in successfully.", "Invalid Email or password."}

\* <tr> elements of a listing page: its class, whether it holds a
\* <td class="text-right">, whether that cell holds an <a>, and the <a>'s href.
RowElems ==
  { [cls |-> "toSort", td |-> FALSE, a |-> FALSE, href |-> NoAttr],
    [cls |-> "toSort", td |-> TRUE,  a |-> FALSE, href |-> NoAttr],
    [cls |-> "toSort", td |-> TRUE,  a |-> TRUE,  href |-> NoAttr],
    [cls |-> "toSort", td |-> TRUE,  a |-> TRUE,  href |-> "/services/1"],
    [cls |-> "toSort", td |-> TRUE,  a |-> TRUE,  href |-> "/services/2"],
    [cls |-> "header", td |-> TRUE,  a |-> TRUE,  href |-> "/about"] }

\* A listing page, as the sequence of its <tr> elements in document order.
PageBodies == SeqUpTo(RowElems, MaxRows)

\* The bodies that come with a status: an error page holds no form and no
\* listing.
BodiesFor(status, bodies) == IF status = 200 THEN bodies ELSE {<<>>}

\* No function holds a response.
NoResponse == [status |-> 0, body |-> <<>>]

\* Contents tos_links.csv can have before the run: no file, or an older run's.
NoFile == <<"no file">>

InitialFiles == {NoFile, <<<<"ToS Links">>, <<"https://edit.tosdr.org/services/9">>>>}

(***************************************************************************)
(* State of one run of main().                                             *)
(*   pc           position of the run in the script                        *)
(*   session      the requests.Session: "none", "open" or "closed"         *)
(*   csrf_token   login()'s local csrf_token                               *)
(*   login_result <<>> until login() returns, then <<its return value>>    *)
(*   page         main()'s loop variable                                   *)
(*   response     the response held by the local `response` of the         *)
(*                function now running, or NoResponse                      *)
(*   tos_links    main()'s accumulated list                                *)
(*   returned     the lists scrape_page has returned so far, in call order *)
(*   exc          the exception propagating out of main(), or None         *)
(*   trace        requests, sleeps, session close and file open, in order  *)
(*   log          the records handed to logging, in order                  *)
(*   file         contents of tos_links.csv (rows of fields), or NoFile    *)
(*   file0        contents of tos_links.csv when the run started           *)
(***************************************************************************)
VARIABLES pc, session, csrf_token, login_result, page, response, tos_links,
          returned, exc, trace, log, file, file0

vars == <<pc, session, csrf_token, login_result, page, response, tos_links,
          returned, exc, trace, log, file, file0>>

Init ==
  /\ pc = "start"
  /\ session = "none"
  /\ csrf_token = None
  /\ login_result = <<>>
  /\ page = 0
  /\ response = NoResponse
  /\ tos_links = <<>>
  /\ returned = <<>>
  /\ exc = None
  /\ trace = <<>>
  /\ log = <<>>
  /\ file0 \in InitialFiles
  /\ file = file0

(***************************************************************************)
(* fetch_csrf_token                                                        *)
(***************************************************************************)
LogError(msg, args) == [level |-> "ERROR", msg |-> msg, args |-> args]

LogInfo(msg, args) == [level |-> "INFO", msg |-> msg, args |-> args]

Min(S) == CHOOSE x \in S : \A y \in S : x <= y

\* soup.find('input', {'name': 'authenticity_token'}): the first such element
\* in document order, as <<element>>, or <<>> when there is none.
FindTokenInput(body) ==
  LET hits == {i \in 1..Len(body) : body[i].name = "authenticity_token"}
  IN  IF hits = {} THEN <<>> ELSE <<body[Min(hits)]>>

\* fetch_csrf_token as it would be if line 39, the error log, were missing.
FetchCsrfToken_SilentMiss(status, body) ==
  IF RaisesForStatus(status)
  THEN [exc |-> "HTTPError", ret |-> None, log |-> <<>>]
  ELSE LET token_input == FindTokenInput(body) IN
       IF token_input = <<>>
       THEN [exc |-> None, ret |-> None, log |-> <<>>]
       ELSE IF token_input[1].value = NoAttr
       THEN [exc |-> "KeyError", ret |-> None, log |-> <<>>]
       ELSE [exc |-> None, ret |-> token_input[1].value, log |-> <<>>]

\* The outcome of fetch_csrf_token on a login page response: the exception it
\* raises (or None), the value it returns and what it logs.
FetchCsrfToken(status, body) ==
  IF RaisesForStatus(status)
  THEN [exc |-> "HTTPError", ret |-> None, log |-> <<>>]
  ELSE LET token_input == FindTokenInput(body) IN
       IF token_input = <<>>
       THEN [exc |-> None, ret |-> None,
             log |-> <<LogError("Failed to retrieve CSRF token.", <<>>)>>]
       ELSE IF token_input[1].value = NoAttr
       THEN [exc |-> "KeyError", ret |-> None, log |-> <<>>]
       ELSE [exc |-> None, ret |-> token_input[1].value, log |-> <<>>]

(***************************************************************************)
(* login                                                                   *)
(***************************************************************************)
Email == "YOUR_EMAIL"

Password == "YOUR_PASSWORD"

\* login, lines 60-64: the form fields, keyed as the script keys them.
Payload(email, password, token) ==
  ("user[email]" :> email) @@ ("user[password]" :> password)
    @@ ("authenticity_token" :> token)

\* login's verdict as it would be if line 67 accepted every non-error status.
LoginVerdict_AnySuccess(status, text) ==
  IF status >= 400
  THEN [ret |-> FALSE,
        log |-> <<LogError("Login failed with status code %s.", <<status>>)>>]
  ELSE [ret |-> TRUE, log |-> <<>>]

\* login's verdict on the POST's response: its return value and what it logs.
LoginVerdict(status, text) ==
  IF status # 200
  THEN [ret |-> FALSE,
        log |-> <<LogError("Login failed with status code %s.", <<status>>)>>]
  ELSE [ret |-> TRUE, log |-> <<>>]

(***************************************************************************)
(* scrape_page                                                             *)
(***************************************************************************)
PageUrl(page_number) ==
  IF page_number > 1
  THEN SERVICES_URL \o "?page=" \o ToString(page_number)
  ELSE SERVICES_URL

\* soup.find_all('tr', class_='toSort')
SortableRows(body) == SelectSeq(body, LAMBDA r : r.cls = "toSort")

\* The for loop of scrape_page from row i on, with `links` collected so far.
\* row.find('td', class_='text-right') is None for a row without that cell,
\* and None.a raises AttributeError; link_elem['href'] raises KeyError for an
\* anchor without href.
RECURSIVE ExtractFrom(_, _, _)
ExtractFrom(rows, i, links) ==
  IF i > Len(rows) THEN [exc |-> None, links |-> links]
  ELSE IF ~rows[i].td THEN [exc |-> "AttributeError", links |-> links]
  ELSE IF ~rows[i].a THEN ExtractFrom(rows, i + 1, links)
  ELSE IF rows[i].href = NoAttr THEN [exc |-> "KeyError", links |-> links]
  ELSE ExtractFrom(rows, i + 1, Append(links, BASE_URL \o rows[i].href))

\* scrape_page, lines 92-99: the exception the parsing raises (or None) and
\* the list of links it builds.
ExtractLinks(body) == ExtractFrom(SortableRows(body), 1, <<>>)

\* The sleep as it would be if line 101 ran only for a page with links.
Sleep_OnlyIfLinks(links) ==
  IF links = <<>> THEN <<>> ELSE <<[op |-> "sleep", secs |-> DELAY]>>

\* time.sleep(DELAY), as the events it adds to the trace after a page whose
\* parsing gave `links`.
Sleep(links) == <<[op |-> "sleep", secs |-> DELAY]>>

\* scrape_page on the response to its GET: the exception it raises (or None),
\* the list it returns and the sleeps it makes on the way.
ScrapePage(status, body) ==
  IF RaisesForStatus(status)
  THEN [exc |-> "HTTPError", links |-> <<>>, slept |-> <<>>]
  ELSE LET r == ExtractLinks(body) IN
       IF r.exc # None
       THEN [exc |-> r.exc, links |-> <<>>, slept |-> <<>>]
       ELSE [exc |-> None, links |-> r.links, slept |-> Sleep(r.links)]

\* The page range as it would be with range(1, TOTAL_PAGES).
PageRange_Exclusive == 1..(TOTAL_PAGES - 1)

\* main, line 119: range(1, TOTAL_PAGES + 1)
PageRange == 1..TOTAL_PAGES

\* Line 120 as it would be with an assignment in place of extend.
Extend_Overwrite(list, links) == links

\* main, line 120: tos_links.extend(scrape_page(session, page))
Extend(list, links) == list \o links

(***************************************************************************)
(* The csv file.                                                           *)
(***************************************************************************)
Filename == "tos_links.csv"

\* What main() writes: the header row, then one row per link.
CsvRows(links) == <<<<"ToS Links">>>> \o [i \in 1..Len(links) |-> <<links[i]>>]

(***************************************************************************)
(* The run, step by step.                                                  *)
(***************************************************************************)
\* main, lines 112-114: the session is opened and login() is called.
MainEnter ==
  /\ pc = "start"
  /\ session' = "open"
  /\ pc' = "fetch_csrf_get"
  /\ UNCHANGED <<csrf_token, login_result, page, response, tos_links,
                 returned, exc, trace, log, file, file0>>

\* login line 56, fetch_csrf_token line 32: GET the login page.
FetchCsrfGet ==
  /\ pc = "fetch_csrf_get"
  /\ \E status \in Statuses : \E body \in BodiesFor(status, LoginBodies) :
       /\ trace' = Append(trace, [op |-> "GET", url |-> LOGIN_URL, status |-> status])
       /\ response' = [status |-> status, body |-> body]
  /\ pc' = "fetch_csrf_parse"
  /\ UNCHANGED <<session, csrf_token, login_result, page, tos_links, returned,
                 exc, log, file, file0>>

\* fetch_csrf_token, lines 33-42, returning into login line 56. Nothing
\* catches an exception: it unwinds to the with block of main.
FetchCsrfParse ==
  /\ pc = "fetch_csrf_parse"
  /\ LET r == FetchCsrfToken(response.status, response.body) IN
       /\ log' = log \o r.log
       /\ exc' = r.exc
       /\ csrf_token' = r.ret
       /\ pc' = IF r.exc # None THEN "with_exit" ELSE "login_check_token"
  /\ response' = NoResponse
  /\ UNCHANGED <<session, login_result, page, tos_links, returned, trace,
                 file, file0>>

\* login, lines 57-58.
LoginCheckToken ==
  /\ pc = "login_check_token"
  /\ IF Falsy(csrf_token)
     THEN /\ login_result' = <<FALSE>>
          /\ pc' = "main_check_login"
     ELSE /\ login_result' = login_result
          /\ pc' = "login_post"
  /\ UNCHANGED <<session, csrf_token, page, response, tos_links, returned,
                 exc, trace, log, file, file0>>

\* login, lines 60-71: POST the form and judge the response by its status.
LoginPost ==
  /\ pc = "login_post"
  /\ \E status \in PostStatuses, text \in PostBodies :
       LET v == LoginVerdict(status, text) IN
       /\ trace' = Append(trace, [op |-> "POST", url |-> LOGIN_URL,
                                  status |-> status, text |-> text,
                                  data |-> Payload(Email, Password, csrf_token)])
       /\ log' = log \o v.log
       /\ login_result' = <<v.ret>>
  /\ pc' = "main_check_login"
  /\ UNCHANGED <<session, csrf_token, page, response, tos_links, returned,
                 exc, file, file0>>

\* main, lines 114-119: leave on a failed login, else start the page loop.
MainCheckLogin ==
  /\ pc = "main_check_login"
  /\ IF ~login_result[1]
     THEN /\ log' = Append(log, LogError("Login failed. Exiting.", <<>>))
          /\ pc' = "with_exit"
          /\ page' = page
     ELSE /\ log' = log
          /\ page' = IF PageRange # {} THEN Min(PageRange) ELSE page
          /\ pc' = IF PageRange # {} THEN "scrape_get" ELSE "with_exit"
  /\ UNCHANGED <<session, csrf_token, login_result, response, tos_links,
                 returned, exc, trace, file, file0>>

\* scrape_page, lines 85-89: GET the page.
ScrapeGet ==
  /\ pc = "scrape_get"
  /\ \E status \in Statuses : \E body \in BodiesFor(status, PageBodies) :
       /\ trace' = Append(trace, [op |-> "GET", url |-> PageUrl(page), status |-> status])
       /\ response' = [status |-> status, body |-> body]
  /\ pc' = "scrape_parse"
  /\ UNCHANGED <<session, csrf_token, login_result, page, tos_links, returned,
                 exc, log, file, file0>>

\* scrape_page, lines 90-102, and main, lines 119-120: raise_for_status,
\* extract the links, sleep, return; main extends tos_links and moves to the
\* next page. Nothing catches an exception: it unwinds to the with block.
ScrapeParse ==
  /\ pc = "scrape_parse"
  /\ LET r == ScrapePage(response.status, response.body) IN
     IF r.exc # None
     THEN /\ exc' = r.exc
          /\ pc' = "with_exit"
          /\ UNCHANGED <<tos_links, returned, page>>
     ELSE /\ exc' = exc
          /\ tos_links' = Extend(tos_links, r.links)
          /\ returned' = Append(returned, r.links)
          /\ page' = IF page + 1 \in PageRange THEN page + 1 ELSE page
          /\ pc' = IF page + 1 \in PageRange THEN "scrape_get" ELSE "with_exit"
  /\ trace' = trace \o ScrapePage(response.status, response.body).slept
  /\ response' = NoResponse
  /\ UNCHANGED <<session, csrf_token, login_result, log, file, file0>>

\* The session as it would be left by a close() placed at the end of the
\* block, in place of the with statement.
SessionAfterWith_LeakOnError(e) == IF e # None THEN "open" ELSE "closed"

\* main, line 113: what __exit__ of the session's with block leaves the
\* session as, given the exception (or None) the block is left with.
SessionAfterWith(e) == "closed"

\* The way out of the with block as it would be without line 116's return.
AfterWith_NoReturn == IF exc # None THEN "crashed" ELSE "write"

\* Where the run goes once the with block of main is left: an exception
\* leaves main, line 116 returns from it, otherwise line 123 is next.
AfterWith ==
  IF exc # None THEN "crashed"
  ELSE IF login_result = <<FALSE>> THEN "returned"
  ELSE "write"

\* main, line 113: leaving the with block, by return, by exception or by
\* reaching its end, closes the session.
SessionExit ==
  /\ pc = "with_exit"
  /\ session' = SessionAfterWith(exc)
  /\ trace' = Append(trace, [op |-> "exit", session |-> SessionAfterWith(exc)])
  /\ pc' = AfterWith
  /\ UNCHANGED <<csrf_token, login_result, page, response, tos_links,
                 returned, exc, log, file, file0>>

\* main, lines 123-128: open the file for writing, write header and links.
WriteCsv ==
  /\ pc = "write"
  /\ trace' = Append(trace, [op |-> "open", name |-> Filename, mode |-> "w"])
  /\ file' = CsvRows(tos_links)
  /\ pc' = "log_saved"
  /\ UNCHANGED <<session, csrf_token, login_result, page, response, tos_links,
                 returned, exc, log, file0>>

\* main, line 130: the f-string is formatted before logging.info gets it, so
\* the record carries the finished message and no arguments.
LogSaved ==
  /\ pc = "log_saved"
  /\ log' = Append(log, LogInfo("Links saved to " \o Filename, <<>>))
  /\ pc' = "done"
  /\ UNCHANGED <<session, csrf_token, login_result, page, response, tos_links,
                 returned, exc, trace, file, file0>>

Next ==
  \/ MainEnter
  \/ FetchCsrfGet
  \/ FetchCsrfParse
  \/ LoginCheckToken
  \/ LoginPost
  \/ MainCheckLogin
  \/ ScrapeGet
  \/ ScrapeParse
  \/ SessionExit
  \/ WriteCsv
  \/ LogSaved

Spec == Init /\ [][Next]_vars

\* The run is over: main has returned or an exception has left it.
Terminated == pc \in {"returned", "crashed", "done"}

TypeOK ==
  /\ pc \in {"start", "fetch_csrf_get", "fetch_csrf_parse", "login_check_token",
             "login_post", "main_check_login", "scrape_get", "scrape_parse",
             "with_exit", "write", "log_saved", "returned", "crashed", "done"}
  /\ session \in {"none", "open", "closed"}
  /\ login_result \in {<<>>, <<TRUE>>, <<FALSE>>}
  /\ page \in 0..TOTAL_PAGES
  /\ exc \in {None, "HTTPError", "KeyError", "AttributeError"}
  /\ Len(returned) <= TOTAL_PAGES

(***************************************************************************)
(* Reading the trace.                                                      *)
(***************************************************************************)
IsLoginGet(e) == e.op = "GET" /\ e.url = LOGIN_URL

IsPageGet(e) == e.op = "GET" /\ e.url # LOGIN_URL

IsOp(e, op) == e.op = op

LoginGets == {i \in DOMAIN trace : IsLoginGet(trace[i])}

PageGets == {i \in DOMAIN trace : IsPageGet(trace[i])}

Posts == {i \in DOMAIN trace : IsOp(trace[i], "POST")}

Sleeps == {i \in DOMAIN trace : IsOp(trace[i], "sleep")}

Opens == {i \in DOMAIN trace : IsOp(trace[i], "open")}

\* An HTTP status that is not a success: a client or server error.
NonSuccess(status) == status >= 400

RECURSIVE Flatten(_)
Flatten(lists) ==
  IF lists = <<>> THEN <<>> ELSE Head(lists) \o Flatten(Tail(lists))

RECURSIVE SumLen(_)
SumLen(lists) ==
  IF lists = <<>> THEN 0 ELSE Len(Head(lists)) + SumLen(Tail(lists))

LoginFailedLog == LogError("Login failed. Exiting.", <<>>)

TokenMissingLog == LogError("Failed to retrieve CSRF token.", <<>>)

(***************************************************************************)
(* The claims.                                                             *)
(***************************************************************************)
\* C1: once login has returned False, no listing page is requested, the
\* output file is neither opened nor changed, and the run ends by main's
\* return right after the error "Login failed. Exiting." is logged.
C1_AuthFailureStopsRun ==
  login_result = <<FALSE>> =>
    /\ PageGets = {}
    /\ Opens = {}
    /\ file = file0
    /\ pc \in {"main_check_login", "with_exit", "returned"}
    /\ exc = None
    /\ pc # "main_check_login" =>
         /\ log # <<>>
         /\ log[Len(log)] = LoginFailedLog

\* C1 witness: a run that ended on a rejected login POST, over an older file.
C1_Witness ==
  /\ pc = "returned"
  /\ login_result = <<FALSE>>
  /\ \E i \in Posts : trace[i].status = 401
  /\ file0 # NoFile
  /\ file = file0

\* C2: when the request for a listing page comes back with a non-success
\* status, it is the last request of the run: nothing but the session's
\* close follows it, the file is neither opened nor changed (the links of
\* the earlier pages are lost), and the run ends with the HTTPError.
C2_PageErrorAbortsRun ==
  \A i \in PageGets :
    NonSuccess(trace[i].status) =>
      /\ \A j \in DOMAIN trace : j > i => IsOp(trace[j], "exit")
      /\ Opens = {}
      /\ file = file0
      /\ pc \in {"scrape_parse", "with_exit", "crashed"}
      /\ pc # "scrape_parse" => exc = "HTTPError"

\* C2 witness: page 2 failed after page 1 had given links, and no file exists.
C2_Witness ==
  /\ pc = "crashed"
  /\ exc = "HTTPError"
  /\ Len(returned) = 1
  /\ tos_links # <<>>
  /\ \E i \in PageGets : trace[i].url = PageUrl(2) /\ trace[i].status = 404
  /\ file = NoFile

\* C3: a run in which login succeeded and scrape_page returned for every page
\* ends with the file written, and the file is the header row followed by one
\* row per link of the returned lists, in page order and in row order within
\* a page; the number of data rows is the sum of the lists' lengths.
C3_OutputIsConcatenation ==
  /\ (Terminated /\ Len(returned) = TOTAL_PAGES) => pc = "done"
  /\ pc \in {"log_saved", "done"} =>
       /\ Len(returned) = TOTAL_PAGES
       /\ Len(file) = 1 + SumLen(returned)
       /\ file[1] = <<"ToS Links">>
       /\ \A i \in 1..Len(Flatten(returned)) : file[i + 1] = <<Flatten(returned)[i]>>

\* C3 witness: a finished run with two different links from page 1 and none
\* from page 2.
C3_Witness ==
  /\ pc = "done"
  /\ Len(returned[1]) = 2
  /\ returned[1][1] # returned[1][2]
  /\ returned[2] = <<>>
  /\ Len(file) = 3

\* C4: when the GET of the login page comes back with a non-success status,
\* login returns False and the run ends by the logged authentication-failure
\* return of main, with no exception leaving main.
C4_LoginPageErrorIsAuthFailure ==
  (Terminated /\ \E i \in LoginGets : NonSuccess(trace[i].status)) =>
    /\ pc = "returned"
    /\ login_result = <<FALSE>>
    /\ exc = None

\* C5: whenever the run is over, by main's early return, by an exception or
\* by completion, the session is closed.
C5_SessionClosedOnExit == Terminated => session = "closed"

\* C5 witness: a run ended by the HTTPError of a page fetch.
C5_Witness ==
  /\ pc = "crashed"
  /\ exc = "HTTPError"
  /\ PageGets # {}
  /\ session = "closed"

\* The links C6 expects of a page: BASE_URL + href for every sortable row
\* with an anchor in its right-aligned cell, in row order.
ExpectedLinks(body) ==
  LET with_anchor == SelectSeq(body, LAMBDA r : r.cls = "toSort" /\ r.td /\ r.a)
  IN  [i \in 1..Len(with_anchor) |-> BASE_URL \o with_anchor[i].href]

\* Every anchor C6 counts carries an href.
AnchorsHaveHref(body) ==
  \A i \in 1..Len(body) :
    (body[i].cls = "toSort" /\ body[i].td /\ body[i].a) => body[i].href # NoAttr

\* C6: for a successfully fetched page, scrape_page returns BASE_URL + href
\* for exactly the sortable rows that hold an anchor in the right-aligned
\* cell, in row order; every other sortable row is skipped and raises nothing.
C6_RowsWithoutAnchorSkipped ==
  [][(pc = "scrape_parse" /\ response.status = 200 /\ AnchorsHaveHref(response.body))
       => /\ exc' = None
          /\ returned' = Append(returned, ExpectedLinks(response.body))]_vars

\* C7: once the login form has been posted, login has returned, and it has
\* returned True exactly when the POST's status is 200, whatever the body;
\* for any other status the error with that status code is the last record
\* logged by login, and for 200 login logs nothing.
C7_LoginVerdictIsStatus ==
  \A i \in Posts :
    /\ ~Falsy(trace[i].data.authenticity_token)
    /\ login_result = <<trace[i].status = 200>>
    /\ trace[i].status # 200 =>
         LogError("Login failed with status code %s.", <<trace[i].status>>)
           \in {log[k] : k \in DOMAIN log}
    /\ trace[i].status = 200 => \A k \in DOMAIN log : log[k].level # "ERROR"

\* C7 witness: status 200 with a body that reports a failure, and login
\* returned True.
C7_Witness ==
  /\ login_result = <<TRUE>>
  /\ \E i \in Posts :
       trace[i].status = 200 /\ trace[i].text = "Invalid Email or password."

\* The authenticity_token inputs of a login page, by position.
TokenFields(body) == {i \in 1..Len(body) : body[i].name = "authenticity_token"}

\* C8, the extraction step: on a successfully fetched login page without an
\* authenticity_token input, fetch_csrf_token logs the error and returns
\* None; with the input and its value attribute, it returns that value and
\* logs nothing.
C8_ExtractionStep ==
  (pc = "fetch_csrf_parse" /\ response.status = 200) =>
    IF TokenFields(response.body) = {}
    THEN /\ csrf_token' = None
         /\ exc' = None
         /\ log' = Append(log, TokenMissingLog)
    ELSE LET field == response.body[Min(TokenFields(response.body))] IN
         field.value # NoAttr =>
           /\ csrf_token' = field.value
           /\ exc' = None
           /\ log' = log

\* C8, after a missing token was logged: login returns nothing but False, the
\* form is never posted, and the login page has been fetched once only.
C8_NoPostNoRetry ==
  (\E k \in DOMAIN log : log[k] = TokenMissingLog) =>
    /\ Posts = {}
    /\ LoginGets = {1}
    /\ login_result \in {<<>>, <<FALSE>>}
    /\ pc # "login_post"
    /\ Terminated => login_result = <<FALSE>>

\* C8: a login page without the authenticity_token input makes token
\* extraction log an error and yield None, login return False, with no POST
\* and no second GET of the login page; a page with the input yields exactly
\* its value attribute.
C8_TokenExtraction == [][C8_ExtractionStep]_vars /\ []C8_NoPostNoRetry

\* C8 witness: a run ended after a login page without the input.
C8_Witness ==
  /\ pc = "returned"
  /\ log = <<TokenMissingLog, LoginFailedLog>>
  /\ login_result = <<FALSE>>
  /\ Len(trace) = 2

\* The page requests of the run, in the order issued.
PageRequests == SelectSeq(trace, IsPageGet)

\* C9: the login page is requested exactly once, first of all; the page
\* requests are for pages 1, 2, ... in this order, none twice and none
\* skipped; page k+1 is requested only after scrape_page returned for page k;
\* the file is opened only after scrape_page returned for page TOTAL_PAGES.
C9_RequestOrder ==
  /\ trace # <<>> => LoginGets = {1}
  /\ Terminated => LoginGets = {1}
  /\ Cardinality(Posts) <= 1
  /\ PageGets # {} => login_result = <<TRUE>>
  /\ Len(PageRequests) <= TOTAL_PAGES
  /\ \A n \in 1..Len(PageRequests) : PageRequests[n].url = PageUrl(n)
  /\ Len(PageRequests) \in {Len(returned), Len(returned) + 1}
  /\ pc = "scrape_get" => Len(PageRequests) = Len(returned)
  /\ Opens # {} =>
       /\ Len(returned) = TOTAL_PAGES
       /\ Len(PageRequests) = TOTAL_PAGES
       /\ \A i \in Opens : \A j \in PageGets \cup Sleeps : j < i

\* C9 witness: a finished run that requested every page.
C9_Witness ==
  /\ pc = "done"
  /\ Len(PageRequests) = TOTAL_PAGES
  /\ Opens # {}

\* The number of sleeps among the first i - 1 events of the trace.
SleepsBefore(i) == Cardinality({j \in Sleeps : j < i})

\* C10: scrape_page sleeps DELAY seconds exactly once per page it returns
\* for, right after that page's fetch, with or without links; so one sleep
\* lies between two consecutive page requests, and one after the last page
\* before the file is opened.
C10_DelayAfterEachPage ==
  /\ Cardinality(Sleeps) = Len(returned)
  /\ \A i \in Sleeps :
       /\ trace[i].secs = DELAY
       /\ i > 1
       /\ IsPageGet(trace[i - 1])
       /\ ~NonSuccess(trace[i - 1].status)
  /\ \A i \in PageGets :
       SleepsBefore(i) = Cardinality({j \in PageGets : j < i})
  /\ \A i \in Opens : SleepsBefore(i) = TOTAL_PAGES

\* C10 witness: a finished run with a page that gave no link and a page
\* that gave some.
C10_Witness ==
  /\ pc = "done"
  /\ \E k \in DOMAIN returned : returned[k] = <<>>
  /\ \E k \in DOMAIN returned : returned[k] # <<>>
  /\ Cardinality(Sleeps) = TOTAL_PAGES

====
